---- MODULE Spec2Model ----
(***************************************************************************)
(* MusicMatch backend (src/logic.py): the User record, the normalizer, the *)
(* Jaccard similarity, and the Matcher store with add_user / match /       *)
(* from_file / save.                                                       *)
(*                                                                         *)
(* A Python str is a sequence of code points (naturals); a Python list is  *)
(* a sequence; a list object that two names may share lives in `lists`.    *)
(* A float score n/d is kept as the pair [num |-> n, den |-> d] and        *)
(* compared by cross-multiplication (exact for the small integers here).   *)
(***************************************************************************)
EXTENDS Integers, Sequences, FiniteSets, TLC

\* ------------------------------------------------------------------ bounds

\* Longest store the model lets add_user grow by appending.
MaxUsers == 3
\* Longest caller-supplied list handed to Matcher(users).
MaxCallerLen == 2
\* Longest top_artists list drawn for the similarity specification.
MaxArtists == 2

\* ------------------------------------------------------------ str helpers

\* str.isspace for the ASCII range: \t \n \v \f \r, FS GS RS US, and space.
IsSpace(c) == c \in {9, 10, 11, 12, 13, 28, 29, 30, 31, 32}

RECURSIVE lstrip(_)
lstrip(s) ==
    IF s = <<>> THEN <<>>
    ELSE IF IsSpace(Head(s)) THEN lstrip(Tail(s)) ELSE s

RECURSIVE rstrip(_)
rstrip(s) ==
    IF s = <<>> THEN <<>>
    ELSE IF IsSpace(s[Len(s)]) THEN rstrip(SubSeq(s, 1, Len(s) - 1)) ELSE s

\* str.strip(): whitespace removed at both ends.
strip(s) == rstrip(lstrip(s))

\* str.casefold() on ASCII: A..Z become a..z, everything else is kept.
casefold(s) == [i \in 1..Len(s) |-> IF s[i] \in 65..90 THEN s[i] + 32 ELSE s[i]]

\* str.split() with no argument: the maximal runs of non-whitespace, in order.
RECURSIVE split(_)
split(s) ==
    LET t == lstrip(s) IN
    IF t = <<>> THEN <<>>
    ELSE LET ends == {i \in 1..Len(t) : IsSpace(t[i])}
             n    == IF ends = {} THEN Len(t) + 1
                     ELSE CHOOSE i \in ends : \A j \in ends : i <= j
         IN  <<SubSeq(t, 1, n - 1)>> \o split(SubSeq(t, n, Len(t)))

\* " ".join(words)
RECURSIVE join(_)
join(words) ==
    IF words = <<>> THEN <<>>
    ELSE IF Len(words) = 1 THEN words[1]
    ELSE words[1] \o <<32>> \o join(Tail(words))

\* str < str: lexicographic by code point, a proper prefix first.
RECURSIVE StrLess(_, _)
StrLess(s, t) ==
    IF t = <<>> THEN FALSE
    ELSE IF s = <<>> THEN TRUE
    ELSE IF Head(s) /= Head(t) THEN Head(s) < Head(t)
    ELSE StrLess(Tail(s), Tail(t))

\* set(list)
ToSet(seq) == {seq[i] : i \in DOMAIN seq}

\* sorted(set of str): ascending by StrLess.
RECURSIVE sorted(_)
sorted(S) ==
    IF S = {} THEN <<>>
    ELSE LET m == CHOOSE x \in S : \A y \in S : y = x \/ StrLess(x, y)
         IN  <<m>> \o sorted(S \ {m})

\* ------------------------------------------------------- User, normalizer

User(n, a) == [name |-> n, top_artists |-> a]

normalize_artist_keep_runs(a) == casefold(strip(a))
\* normalize_artist: " ".join(a.strip().casefold().split())
normalize_artist(a) == join(split(casefold(strip(a))))

\* User.normalized_artists: [normalize_artist(a) for a in top_artists if a.strip()]
RECURSIVE normalized_artists(_)
normalized_artists(arts) ==
    IF arts = <<>> THEN <<>>
    ELSE IF strip(Head(arts)) /= <<>>
         THEN <<normalize_artist(Head(arts))>> \o normalized_artists(Tail(arts))
         ELSE normalized_artists(Tail(arts))

\* The identity key both add_user and match compare: name.strip().casefold()
NameKey(n) == casefold(strip(n))

\* ------------------------------------------------------------- similarity

\* jaccard_similarity: 0.0 when both sets are empty, else |a & b| / |a | b|
jaccard_similarity(a, b) ==
    LET set_a == ToSet(a)
        set_b == ToSet(b)
    IN  IF set_a = {} /\ set_b = {} THEN [num |-> 0, den |-> 1]
        ELSE [num |-> Cardinality(set_a \cap set_b),
              den |-> Cardinality(set_a \cup set_b)]

\* float comparison of two scores
ScoreLess(x, y) == x.num * y.den < y.num * x.den
ScoreEq(x, y)   == x.num * y.den = y.num * x.den

\* overlap_count: |set(a) & set(b)|
overlap_count(a, b) == Cardinality(ToSet(a) \cap ToSet(b))

\* --------------------------------------------------------------- ranking

\* The sort key of line 89-90: (score, len(shared), name.casefold()),
\* compared as Python compares tuples.
KeyLess(x, y) ==
    \/ ScoreLess(x.score, y.score)
    \/ /\ ScoreEq(x.score, y.score)
       /\ \/ Len(x.shared) < Len(y.shared)
          \/ /\ Len(x.shared) = Len(y.shared)
             /\ StrLess(casefold(x.user.name), casefold(y.user.name))

\* list.sort(key=..., reverse=True): descending by key, and stable (entries
\* with equal keys keep their original relative order).  Entry e goes after
\* every entry already placed whose key is not less than e's.
RECURSIVE sort_reverse(_)
sort_reverse(seq) ==
    IF seq = <<>> THEN <<>>
    ELSE LET e    == seq[Len(seq)]
             done == sort_reverse(SubSeq(seq, 1, Len(seq) - 1))
             k    == Cardinality({i \in 1..Len(done) : ~KeyLess(done[i], e)})
         IN  SubSeq(done, 1, k) \o <<e>> \o SubSeq(done, k + 1, Len(done))

\* seq[:k] as Python slices: a negative k counts from the end.
Slice(seq, k) ==
    LET stop == IF k < 0 THEN (IF Len(seq) + k < 0 THEN 0 ELSE Len(seq) + k)
                ELSE (IF k > Len(seq) THEN Len(seq) ELSE k)
    IN  SubSeq(seq, 1, stop)

scored_no_self_check(users, query) ==
    LET q_art == normalized_artists(query.top_artists)
    IN  [i \in 1..Len(users) |->
            [user   |-> users[i],
             score  |-> jaccard_similarity(q_art, normalized_artists(users[i].top_artists)),
             shared |-> sorted(ToSet(q_art) \cap ToSet(normalized_artists(users[i].top_artists)))]]
\* The loop of match (lines 79-87): one (u, score, shared) entry per stored
\* record whose identity key differs from the query's, in store order.
RECURSIVE scored(_, _)
scored(users, query) ==
    IF users = <<>> THEN <<>>
    ELSE LET u     == users[Len(users)]
             rest  == scored(SubSeq(users, 1, Len(users) - 1), query)
             q_art == normalized_artists(query.top_artists)
             u_art == normalized_artists(u.top_artists)
         IN  IF NameKey(u.name) = NameKey(query.name) THEN rest
             ELSE Append(rest, [user   |-> u,
                                score  |-> jaccard_similarity(q_art, u_art),
                                shared |-> sorted(ToSet(q_art) \cap ToSet(u_art))])

\* Matcher.match: the value returned (lines 78-91).
match(users, query, top_k) == Slice(sort_reverse(scored(users, query)), top_k)

\* ------------------------------------------------------------------ store

add_user_append_always(users, user) == Append(users, user)
add_user_move_to_end(users, user) ==
    LET keep == {i \in 1..Len(users) : NameKey(users[i].name) /= NameKey(user.name)}
        F[n \in 0..Len(users)] ==
            IF n = 0 THEN <<>> ELSE IF n \in keep THEN Append(F[n - 1], users[n]) ELSE F[n - 1]
    IN  Append(F[Len(users)], user)
\* Matcher.add_user on the list self.users: the first record whose identity
\* key equals the new record's is replaced in place; otherwise append.
add_user(users, user) ==
    LET hits == {i \in 1..Len(users) : NameKey(users[i].name) = NameKey(user.name)}
    IN  IF hits = {} THEN Append(users, user)
        ELSE LET i == CHOOSE h \in hits : \A g \in hits : h <= g
             IN  [users EXCEPT ![i] = user]

\* ------------------------------------------------------------ persistence

\* dict.get(key, default)
Get(d, key, default) == IF key \in DOMAIN d THEN d[key] ELSE default

\* json.dump of a str with ensure_ascii=False: quoted, with " \ and the
\* control characters \n \t escaped by a backslash.
RECURSIVE json_escape(_)
json_escape(s) ==
    IF s = <<>> THEN <<>>
    ELSE (CASE Head(s) = 34 -> <<92, 34>>
            [] Head(s) = 92 -> <<92, 92>>
            [] Head(s) = 10 -> <<92, 110>>
            [] Head(s) = 9  -> <<92, 116>>
            [] OTHER        -> <<Head(s)>>) \o json_escape(Tail(s))

json_dump_str_raw(s) == <<34>> \o s \o <<34>>
json_dump_str(s) == <<34>> \o json_escape(s) \o <<34>>

\* json.load of the characters between the quotes of a string token.
RECURSIVE json_unescape(_)
json_unescape(t) ==
    IF t = <<>> THEN <<>>
    ELSE IF Head(t) = 92 /\ Len(t) >= 2
         THEN (CASE t[2] = 110 -> <<10>>
                 [] t[2] = 116 -> <<9>>
                 [] OTHER      -> <<t[2]>>) \o json_unescape(SubSeq(t, 3, Len(t)))
         ELSE <<Head(t)>> \o json_unescape(Tail(t))

\* json.load of a string token: up to the first unescaped quote.
json_load_str(t) ==
    LET body   == SubSeq(t, 2, Len(t))
        closes == {i \in 1..Len(body) :
                     /\ body[i] = 34
                     /\ LET bs == {j \in 0..(i - 1) :
                                     \A k \in (i - j)..(i - 1) : body[k] = 92}
                            n  == CHOOSE j \in bs : \A l \in bs : l <= j
                        IN  n % 2 = 0}
        close  == CHOOSE i \in closes : \A j \in closes : i <= j
    IN  json_unescape(SubSeq(body, 1, close - 1))

\* Matcher.to_dict
to_dict(users) ==
    [users |-> [i \in 1..Len(users) |->
                  [name |-> users[i].name, top_artists |-> users[i].top_artists]]]

\* json.dump of a {key: [ {field: str | [str]} ]} document: the structure
\* is kept, every str leaf becomes its JSON string token.
json_dump(d) ==
    [k \in DOMAIN d |->
       [i \in 1..Len(d[k]) |->
          [f \in DOMAIN d[k][i] |->
             IF f = "name" THEN json_dump_str(d[k][i][f])
             ELSE [j \in 1..Len(d[k][i][f]) |-> json_dump_str(d[k][i][f][j])]]]]

\* json.load of such a document.
json_load(t) ==
    [k \in DOMAIN t |->
       [i \in 1..Len(t[k]) |->
          [f \in DOMAIN t[k][i] |->
             IF f = "name" THEN json_load_str(t[k][i][f])
             ELSE [j \in 1..Len(t[k][i][f]) |-> json_load_str(t[k][i][f][j])]]]]

\* The list comprehension of from_file (lines 103-104).
from_file_users(data) ==
    LET entries == Get(data, "users", <<>>)
    IN  [i \in 1..Len(entries) |->
           User(Get(entries[i], "name", <<>>), Get(entries[i], "top_artists", <<>>))]

\* The seed list display of sample_users (lines 114-132); plus marks an
\* element written with a unary + in front of the tuple (line 123-124).
seed ==
  <<
    \* ('Aarav', ['Taylor Swift', 'Weeknd', 'Imagine Dragons', 'AURORA', 'Coldplay'])
    [plus |-> FALSE, name |-> <<65, 97, 114, 97, 118>>,
     artists |-> <<<<84, 97, 121, 108, 111, 114, 32, 83, 119, 105, 102, 116>>,
                   <<87, 101, 101, 107, 110, 100>>,
                   <<73, 109, 97, 103, 105, 110, 101, 32, 68, 114, 97, 103, 111, 110, 115>>,
                   <<65, 85, 82, 79, 82, 65>>,
                   <<67, 111, 108, 100, 112, 108, 97, 121>>>>],
    \* ('Zoya', ['BTS', 'Blackpink', 'IU', 'NewJeans', 'Weeknd'])
    [plus |-> FALSE, name |-> <<90, 111, 121, 97>>,
     artists |-> <<<<66, 84, 83>>,
                   <<66, 108, 97, 99, 107, 112, 105, 110, 107>>,
                   <<73, 85>>,
                   <<78, 101, 119, 74, 101, 97, 110, 115>>,
                   <<87, 101, 101, 107, 110, 100>>>>],
    \* ('Kabir', ['Arijit Singh', 'Pritam', 'Shreya Ghoshal', 'A R Rahman', 'Jubin Nautiyal'])
    [plus |-> FALSE, name |-> <<75, 97, 98, 105, 114>>,
     artists |-> <<<<65, 114, 105, 106, 105, 116, 32, 83, 105, 110, 103, 104>>,
                   <<80, 114, 105, 116, 97, 109>>,
                   <<83, 104, 114, 101, 121, 97, 32, 71, 104, 111, 115, 104, 97, 108>>,
                   <<65, 32, 82, 32, 82, 97, 104, 109, 97, 110>>,
                   <<74, 117, 98, 105, 110, 32, 78, 97, 117, 116, 105, 121, 97, 108>>>>],
    \* ('Mia', ['Billie Eilish', 'Lana Del Rey', 'AURORA', 'Grimes', 'FKA twigs'])
    [plus |-> FALSE, name |-> <<77, 105, 97>>,
     artists |-> <<<<66, 105, 108, 108, 105, 101, 32, 69, 105, 108, 105, 115, 104>>,
                   <<76, 97, 110, 97, 32, 68, 101, 108, 32, 82, 101, 121>>,
                   <<65, 85, 82, 79, 82, 65>>,
                   <<71, 114, 105, 109, 101, 115>>,
                   <<70, 75, 65, 32, 116, 119, 105, 103, 115>>>>],
    \* ('Rishabh', ['Linkin Park', 'Imagine Dragons', 'Fall Out Boy', 'Green Day', 'My Chemical Romance'])
    [plus |-> FALSE, name |-> <<82, 105, 115, 104, 97, 98, 104>>,
     artists |-> <<<<76, 105, 110, 107, 105, 110, 32, 80, 97, 114, 107>>,
                   <<73, 109, 97, 103, 105, 110, 101, 32, 68, 114, 97, 103, 111, 110, 115>>,
                   <<70, 97, 108, 108, 32, 79, 117, 116, 32, 66, 111, 121>>,
                   <<71, 114, 101, 101, 110, 32, 68, 97, 121>>,
                   <<77, 121, 32, 67, 104, 101, 109, 105, 99, 97, 108, 32, 82, 111, 109, 97, 110, 99, 101>>>>],
    \* +('Anaya', ['AP Dhillon', 'Shubh', 'Karan Aujla', 'Badshah', 'Diljit Dosanjh'])
    [plus |-> TRUE, name |-> <<65, 110, 97, 121, 97>>,
     artists |-> <<<<65, 80, 32, 68, 104, 105, 108, 108, 111, 110>>,
                   <<83, 104, 117, 98, 104>>,
                   <<75, 97, 114, 97, 110, 32, 65, 117, 106, 108, 97>>,
                   <<66, 97, 100, 115, 104, 97, 104>>,
                   <<68, 105, 108, 106, 105, 116, 32, 68, 111, 115, 97, 110, 106, 104>>>>],
    \* ('Noah', ['Drake', 'Kendrick Lamar', 'J. Cole', 'Travis Scott', 'SZA'])
    [plus |-> FALSE, name |-> <<78, 111, 97, 104>>,
     artists |-> <<<<68, 114, 97, 107, 101>>,
                   <<75, 101, 110, 100, 114, 105, 99, 107, 32, 76, 97, 109, 97, 114>>,
                   <<74, 46, 32, 67, 111, 108, 101>>,
                   <<84, 114, 97, 118, 105, 115, 32, 83, 99, 111, 116, 116>>,
                   <<83, 90, 65>>>>],
    \* ('Ishi', ['A R Rahman', 'Shreya Ghoshal', 'KK', 'Arijit Singh', 'Sonu Nigam'])
    [plus |-> FALSE, name |-> <<73, 115, 104, 105>>,
     artists |-> <<<<65, 32, 82, 32, 82, 97, 104, 109, 97, 110>>,
                   <<83, 104, 114, 101, 121, 97, 32, 71, 104, 111, 115, 104, 97, 108>>,
                   <<75, 75>>,
                   <<65, 114, 105, 106, 105, 116, 32, 83, 105, 110, 103, 104>>,
                   <<83, 111, 110, 117, 32, 78, 105, 103, 97, 109>>>>],
    \* ('Yuto', ['YOASOBI', 'Kenshi Yonezu', 'Aimer', 'King Gnu', 'Eve'])
    [plus |-> FALSE, name |-> <<89, 117, 116, 111>>,
     artists |-> <<<<89, 79, 65, 83, 79, 66, 73>>,
                   <<75, 101, 110, 115, 104, 105, 32, 89, 111, 110, 101, 122, 117>>,
                   <<65, 105, 109, 101, 114>>,
                   <<75, 105, 110, 103, 32, 71, 110, 117>>,
                   <<69, 118, 101>>>>],
    \* ('Sana', ['Twice', 'Blackpink', 'NewJeans', 'LE SSERAFIM', 'IVE'])
    [plus |-> FALSE, name |-> <<83, 97, 110, 97>>,
     artists |-> <<<<84, 119, 105, 99, 101>>,
                   <<66, 108, 97, 99, 107, 112, 105, 110, 107>>,
                   <<78, 101, 119, 74, 101, 97, 110, 115>>,
                   <<76, 69, 32, 83, 83, 69, 82, 65, 70, 73, 77>>,
                   <<73, 86, 69>>>>]
  >>
\* sample_users(): the elements of the display are evaluated in order, and
\* unary + on a tuple raises TypeError; otherwise the list of User records.
sample_users ==
    IF \E i \in 1..Len(seed) : seed[i].plus
    THEN [exc |-> "TypeError", value |-> <<>>]
    ELSE [exc |-> "none",
          value |-> [i \in 1..Len(seed) |-> User(seed[i].name, seed[i].artists)]]

\* ------------------------------------------------------------------ inputs

\* "a", "A ", " a", "b", "C", "d", "D "
n_a  == <<97>>
n_A_ == <<65, 32>>
n__a == <<32, 97>>
n_b  == <<98>>
n_C  == <<67>>
n_d  == <<100>>
n_D_ == <<68, 32>>
\* "x", "X ", "X", " ", "y", "z", "w", "x  y", "X y "
a_x   == <<120>>
a_X_  == <<88, 32>>
a_X   == <<88>>
a_sp  == <<32>>
a_y   == <<121>>
a_z   == <<122>>
a_w   == <<119>>
a_xy2 == <<120, 32, 32, 121>>
a_Xy_ == <<88, 32, 121, 32>>
\* 'q"\' and "t<TAB>n\n": strings json.dump has to escape
n_quote == <<113, 34, 92>>
a_ctl   == <<116, 9, 110, 92, 110>>

\* The records add_user and the caller's list draw from: two case/whitespace
\* variants of one identity, duplicate and blank artist entries, an empty list.
UserPool ==
    { User(n_a,  <<a_x, a_X_>>),
      User(n_A_, <<a_x, a_y, a_z, a_w>>),
      User(n_b,  <<a_sp, a_x>>),
      User(n_C,  <<>>) }

\* The query users of match.
QueryPool ==
    { User(n__a, <<a_x>>),
      User(n_d,  <<a_X, a_y>>),
      User(n_D_, <<a_sp>>) }

\* The top_k arguments of match; 5 is the default.
TopKs == {-1, 0, 1, 2, 5}

\* Every sequence over S of length at most n.
RECURSIVE SeqsUpTo(_, _)
SeqsUpTo(S, n) ==
    IF n = 0 THEN {<<>>}
    ELSE LET shorter == SeqsUpTo(S, n - 1)
         IN  shorter \cup {Append(q, e) : q \in {r \in shorter : Len(r) = n - 1}, e \in S}

\* The lists a caller hands to Matcher(users).
CallerLists == SeqsUpTo(UserPool, MaxCallerLen)

\* The records of the persistence specification: names and artists with
\* characters JSON escapes, a blank and a duplicate artist entry.
FilePool ==
    { User(n_quote, <<a_ctl, a_sp, a_ctl>>),
      User(n_a,     <<a_x, a_X_>>),
      User(n_b,     <<>>) }

\* Files found at the path that no save of this program wrote: two entries
\* of one identity; entries with a field missing; a document without "users".
FileInputs ==
    { json_dump([users |-> <<[name |-> n_a, top_artists |-> <<a_x>>],
                             [name |-> n_A_, top_artists |-> <<>>]>>]),
      json_dump([users |-> <<[name |-> n_b], [top_artists |-> <<a_x>>]>>]),
      json_dump([other |-> <<>>]) }

NoFile == [exists |-> FALSE, text |-> <<>>]

\* ------------------------------------------------------------------- state

VARIABLES
    lists,       \* the list objects: caller (the list a caller passed), loaded
                 \* (the list from_file built), fresh (the [] of `users or []`)
    self_users,  \* the list object self.users names; "none" before a Matcher exists
    ctor,        \* how the Matcher was constructed: none, empty, list, file
    users0,      \* the contents of the constructor's argument when it ran
    call,        \* the last call: [op, user, top_k]
    ret,         \* the value the last match returned
    exc,         \* the exception the last call raised, "none" if it returned
    fs,          \* the file at the path: [exists, text]
    saved        \* the store contents at the last save: [done, users]

vars == <<lists, self_users, ctor, users0, call, ret, exc, fs, saved>>

\* self.users
Users == IF self_users = "none" THEN <<>> ELSE lists[self_users]

NoCall == [op |-> "none", user |-> User(<<>>, <<>>), top_k |-> 0]

Init ==
    /\ lists = [caller |-> <<>>, loaded |-> <<>>, fresh |-> <<>>]
    /\ self_users = "none"
    /\ ctor = "none"
    /\ users0 = <<>>
    /\ call = NoCall
    /\ ret = <<>>
    /\ exc = "none"
    /\ fs \in {NoFile} \cup {[exists |-> TRUE, text |-> t] : t \in FileInputs}
    /\ saved = [done |-> FALSE, users |-> <<>>]

\* Matcher.__init__ (line 68): self.users = users or [] -- the argument's own
\* list object when it is non-empty, a new empty list otherwise.  The result
\* is the object self.users names.
init(ref) == IF lists'[ref] /= <<>> THEN ref ELSE "fresh"

\* Matcher(): users is None
NewMatcher ==
    /\ ctor = "none"
    /\ lists' = [lists EXCEPT !.fresh = <<>>]
    /\ self_users' = "fresh"
    /\ ctor' = "empty"
    /\ users0' = <<>>
    /\ call' = [NoCall EXCEPT !.op = "init"]
    /\ ret' = <<>>
    /\ exc' = "none"
    /\ UNCHANGED <<fs, saved>>

\* Matcher(L) for a list object L of the caller
matcher_from(L) ==
    /\ ctor = "none"
    /\ lists' = [lists EXCEPT !.caller = L, !.fresh = <<>>]
    /\ self_users' = init("caller")
    /\ ctor' = "list"
    /\ users0' = L
    /\ call' = [NoCall EXCEPT !.op = "init"]
    /\ ret' = <<>>
    /\ exc' = "none"
    /\ UNCHANGED <<fs, saved>>

NewMatcherFrom == \E L \in CallerLists : matcher_from(L)

\* Matcher.add_user(u): mutates the list object self.users names.
add_user_call(u) ==
    /\ self_users /= "none"
    /\ Len(add_user(Users, u)) <= MaxUsers
    /\ lists' = [lists EXCEPT ![self_users] = add_user(@, u)]
    /\ call' = [op |-> "add_user", user |-> u, top_k |-> 0]
    /\ ret' = <<>>
    /\ exc' = "none"
    /\ UNCHANGED <<self_users, ctor, users0, fs, saved>>

AddUser == \E u \in UserPool : add_user_call(u)

match_call_storing(q, k) ==
    /\ self_users /= "none"
    /\ ret' = match(Users, q, k)
    /\ call' = [op |-> "match", user |-> q, top_k |-> k]
    /\ exc' = "none"
    /\ lists' = [lists EXCEPT ![self_users] = add_user(@, q)]
    /\ UNCHANGED <<self_users, ctor, users0, fs, saved>>
\* Matcher.match(q, k): builds, sorts and slices a list of its own; no
\* statement of it assigns to self.users or to a record.
match_call(q, k) ==
    /\ self_users /= "none"
    /\ ret' = match(Users, q, k)
    /\ call' = [op |-> "match", user |-> q, top_k |-> k]
    /\ exc' = "none"
    /\ UNCHANGED <<lists, self_users, ctor, users0, fs, saved>>

Match == \E q \in QueryPool, k \in TopKs : match_call(q, k)

\* Matcher.from_file(path): the seed when the path names no file (an
\* exception of sample_users propagates and no Matcher is made), else the
\* records of the parsed document, handed to Matcher.__init__.
FromFile ==
    LET r == IF fs.exists
             THEN [exc |-> "none", value |-> from_file_users(json_load(fs.text))]
             ELSE sample_users
    IN  /\ call' = [NoCall EXCEPT !.op = "from_file"]
        /\ ret' = <<>>
        /\ exc' = r.exc
        /\ IF r.exc /= "none"
           THEN UNCHANGED <<lists, self_users, ctor, users0>>
           ELSE /\ lists' = [lists EXCEPT !.loaded = r.value, !.fresh = <<>>]
                /\ self_users' = init("loaded")
                /\ ctor' = "file"
                /\ users0' = r.value
        /\ UNCHANGED <<fs, saved>>

\* from_file as the first construction of a behaviour.
LoadFile == ctor = "none" /\ FromFile

Next == NewMatcher \/ NewMatcherFrom \/ LoadFile \/ AddUser \/ Match

Spec == Init /\ [][Next]_vars

\* Matcher.save(path): the document of to_dict, written over the file.
Save ==
    /\ self_users /= "none"
    /\ fs' = [exists |-> TRUE, text |-> json_dump(to_dict(Users))]
    /\ saved' = [done |-> TRUE, users |-> Users]
    /\ call' = [NoCall EXCEPT !.op = "save"]
    /\ ret' = <<>>
    /\ exc' = "none"
    /\ UNCHANGED <<lists, self_users, ctor, users0>>

AddUserFile == \E u \in FilePool : add_user_call(u)

NextFile == NewMatcher \/ FromFile \/ AddUserFile \/ Save

SpecFile == Init /\ [][NextFile]_vars

\* ---------------------------------------------- similarity specification

\* The artist entries of the similarity specification: "x", a blank, and two
\* spellings of "x y" that differ in case, inner and trailing whitespace.
ArtistPool == {a_x, a_sp, a_xy2, a_Xy_}

ArtistLists == SeqsUpTo(ArtistPool, MaxArtists)

InitSim == Init /\ fs = NoFile

\* A store of one candidate with any artist list.
NewMatcherSim == \E l \in ArtistLists : matcher_from(<<User(n_b, l)>>)

\* match with the default top_k, for a query with any artist list.
MatchSim == \E l \in ArtistLists : match_call(User(n_d, l), 5)

NextSim == NewMatcherSim \/ MatchSim

SpecSim == InitSim /\ [][NextSim]_vars

\* ------------------------------------------------------------------ claims

\* No two records of the list have the same identity key.
NoDup(users) ==
    \A i, j \in 1..Len(users) :
        i /= j => NameKey(users[i].name) /= NameKey(users[j].name)

\* The ranked candidate list of the last match call, before truncation.
Ranked == sort_reverse(scored(Users, call.user))

\* C1 (as claimed): the sequence match returns is ordered by score
\* non-increasing, then shared count non-increasing, then case-folded
\* candidate name ascending.
C1_SortedNameAscending ==
    call.op = "match" =>
        \A i \in 1..(Len(ret) - 1) :
            LET x == ret[i]
                y == ret[i + 1]
            IN  \/ ScoreLess(y.score, x.score)
                \/ /\ ScoreEq(x.score, y.score)
                   /\ \/ Len(y.shared) < Len(x.shared)
                      \/ /\ Len(y.shared) = Len(x.shared)
                         /\ ~StrLess(casefold(y.user.name), casefold(x.user.name))

\* C2 (as claimed): in every state of a store, however constructed, no two
\* records have the same normalized identity.
C2_NoDuplicateIdentity == self_users /= "none" => NoDup(Users)

\* C2 (amended): a store constructed empty, or from a list or a file whose
\* records have pairwise distinct normalized identities, has no two records
\* of the same normalized identity after any sequence of add_user calls.
C2_NoDuplicateIdentityFromDistinct ==
    (self_users /= "none" /\ NoDup(users0)) => NoDup(Users)

\* C2 witness: a store built from two records of distinct identity, after an
\* add_user that replaced one of them and one that appended.
C2_Witness ==
    /\ ctor = "list" /\ Len(users0) = 2 /\ NoDup(users0)
    /\ Len(Users) = 3
    /\ \E i \in 1..2 : Users[i] /= users0[i]

\* C3: add_user(record) on a store holding a record of the same identity key
\* puts the record at the index of the first such record and leaves the size
\* and every other position unchanged; otherwise it appends the record and
\* the size grows by one.
C3_AddUserReplacesInPlaceOrAppends ==
    [][call'.op = "add_user" =>
        LET old  == Users
            new  == Users'
            u    == call'.user
            same == {i \in 1..Len(old) : NameKey(old[i].name) = NameKey(u.name)}
        IN  IF same /= {}
            THEN /\ Len(new) = Len(old)
                 /\ \E i \in same :
                       /\ \A h \in same : i <= h
                       /\ new[i] = u
                       /\ \A j \in 1..Len(old) : j /= i => new[j] = old[j]
            ELSE /\ Len(new) = Len(old) + 1
                 /\ new[Len(new)] = u
                 /\ \A j \in 1..Len(old) : new[j] = old[j]]_vars

\* C3 witness: the last add_user replaced, at index 1 of a longer store, a
\* record whose name differs from the new one only in case and whitespace.
C3_Witness ==
    /\ call.op = "add_user"
    /\ Len(Users) >= 2 /\ Len(users0) = Len(Users)
    /\ Users[1] = call.user
    /\ users0[1].name /= call.user.name
    /\ NameKey(users0[1].name) = NameKey(call.user.name)
    /\ \A j \in 2..Len(Users) : Users[j] = users0[j]

\* C4: no entry of the result of match is a record whose normalized name
\* equals the query's normalized name.
C4_NeverMatchesSelf ==
    call.op = "match" =>
        \A i \in 1..Len(ret) : NameKey(ret[i].user.name) /= NameKey(call.user.name)

\* C4 witness: the store holds two variants of the query's name and another
\* candidate, and match returned that candidate.
C4_Witness ==
    /\ call.op = "match"
    /\ Cardinality({i \in 1..Len(Users) :
                      NameKey(Users[i].name) = NameKey(call.user.name)}) >= 2
    /\ Len(ret) >= 1

\* C5: a match call leaves the store as it was: the same list object with
\* the same records in the same order.
C5_MatchLeavesStore ==
    [][call'.op = "match" => (lists' = lists /\ self_users' = self_users)]_vars

\* C5 witness: match returned candidates for a query whose identity is not
\* in the store.
C5_Witness ==
    /\ call.op = "match"
    /\ Len(ret) >= 2
    /\ \A i \in 1..Len(Users) : NameKey(Users[i].name) /= NameKey(call.user.name)

\* C6 (as claimed): match returns the first min(top_k, candidates) entries
\* of the ranked list when top_k > 0 and the empty sequence when top_k <= 0.
C6_TruncatesToTopK ==
    call.op = "match" =>
        LET n == IF call.top_k <= 0 THEN 0
                 ELSE IF call.top_k < Len(Ranked) THEN call.top_k ELSE Len(Ranked)
        IN  ret = SubSeq(Ranked, 1, n)

\* C7 (as claimed): from_file on a path that names no file does not fail and
\* yields a store of exactly the 10 seed records, in seed order.
C7_MissingFileLoadsSeed ==
    (call.op = "from_file" /\ ~fs.exists) =>
        /\ exc = "none"
        /\ Len(Users) = 10
        /\ Len(seed) = 10
        /\ \A i \in 1..10 : Users[i] = User(seed[i].name, seed[i].artists)

\* C8: save followed by from_file on the same path yields a store whose
\* record list equals the saved one, record by record, blank and duplicate
\* artist entries included.
C8_SaveLoadRoundTrip ==
    (call.op = "from_file" /\ saved.done) => (exc = "none" /\ Users = saved.users)

\* C8 witness: a store of several records, one with characters JSON escapes
\* and with blank and duplicate artist entries, was saved and loaded back.
C8_Witness ==
    /\ call.op = "from_file" /\ saved.done /\ ctor = "file"
    /\ Len(Users) >= 2
    /\ \E i \in 1..Len(Users) : Users[i] = User(n_quote, <<a_ctl, a_sp, a_ctl>>)

\* C9 (as claimed): the list a caller passed to the constructor still has
\* exactly the records it had then, after any add_user calls on the store.
C9_CallerListUntouched == ctor = "list" => lists.caller = users0

\* The normalizer as section 4.1 words it: trimmed, case-folded, every run
\* of inner whitespace one space.
SpecNormalize(a) ==
    LET t    == casefold(strip(a))
        keep == {i \in 1..Len(t) : ~(IsSpace(t[i]) /\ i > 1 /\ IsSpace(t[i - 1]))}
        F[n \in 0..Len(t)] ==
            IF n = 0 THEN <<>>
            ELSE IF n \in keep THEN Append(F[n - 1], IF IsSpace(t[n]) THEN 32 ELSE t[n])
            ELSE F[n - 1]
    IN  F[Len(t)]

\* The set of normalized non-blank entries of an artist list.
ArtistSet(arts) ==
    {SpecNormalize(arts[i]) : i \in {j \in 1..Len(arts) : \E k \in 1..Len(arts[j]) : ~IsSpace(arts[j][k])}}

\* C10: for every candidate match returns, the score is |Q & U| / |Q | U|
\* over the sets of normalized non-blank entries (0 when both are empty), so
\* within [0, 1], and the shared list is Q & U in ascending order.
C10_ScoreIsJaccard ==
    call.op = "match" =>
        \A i \in 1..Len(ret) :
            LET Q  == ArtistSet(call.user.top_artists)
                U  == ArtistSet(ret[i].user.top_artists)
                sc == ret[i].score
                sh == ret[i].shared
            IN  /\ sc.den > 0 /\ 0 <= sc.num /\ sc.num <= sc.den
                /\ IF Q \cup U = {} THEN sc.num = 0
                   ELSE sc.num * Cardinality(Q \cup U) = Cardinality(Q \cap U) * sc.den
                /\ ToSet(sh) = Q \cap U
                /\ Len(sh) = Cardinality(Q \cap U)
                /\ \A j \in 1..(Len(sh) - 1) : StrLess(sh[j], sh[j + 1])

\* C10 witness: a score strictly between 0 and 1 for a query whose list has
\* a blank entry and two spellings of one artist.
C10_Witness ==
    /\ call.op = "match"
    /\ Len(ret) = 1
    /\ 0 < ret[1].score.num /\ ret[1].score.num < ret[1].score.den
    /\ Len(call.user.top_artists) = MaxArtists
    /\ Cardinality(ArtistSet(call.user.top_artists)) < Len(call.user.top_artists)

====
